---- MODULE Spec2Model ----
(***************************************************************************)
(* Model of swistakmatt/2fa-app (backend/app): the two-factor code service *)
(* (services/twofa_service.py) over an expiring key-value store, and the   *)
(* password login that issues the access token (api/endpoints/auth.py).    *)
(*                                                                         *)
(* Time is kept relative to the present instant: Now is 0, a stored        *)
(* timestamp is the (non-positive) offset of that instant from now, a      *)
(* key's ttl is the number of seconds it still has to live, and Tick(d)    *)
(* moves the present d seconds forward.                                    *)
(***************************************************************************)
EXTENDS Integers, Sequences, FiniteSets, TLC

\* ------------------------------------------------------------------------
\* Settings (core/config.py) and the escalation table (twofa_service.py)
\* ------------------------------------------------------------------------
TWO_FA_CODE_TTL_SECONDS == 180
TWO_FA_RESEND_SECONDS == 60
TWO_FA_MAX_ATTEMPTS == 5
ACCESS_TOKEN_EXPIRE_MINUTES == 30
TMP_TOKEN_EXPIRE_MINUTES == 5
times == <<30, 60, 480, 1440>>

\* ------------------------------------------------------------------------
\* Bounds and input sets
\* ------------------------------------------------------------------------
\* escalations recorded per user before the model stops escalating
MaxEsc == 2
\* advances of the clock in one behaviour
MaxTicks == 3
\* the rows the users table is given ids for
MaxRows == 3
\* the value of the attempt counter up to which the model lets an EXPIRE be lost
MaxLost == 1

UserIds == {1, 2}
Ips == {"10.0.0.1", "10.0.0.2"}
Emails == {"test@example.com", "other@example.com"}
\* passwords, as sequences of bytes
Passwords == {<<"t", "e", "s", "t">>, <<"w", "r", "o", "n", "g">>}
\* the outcomes of secrets.randbelow(1_000_000) the model draws
RandBelow == {0, 13579}

NoExpiry == -1
\* no send so far: longer ago than any cooldown
Never == TWO_FA_RESEND_SECONDS + 1
Now == 0

Min(a, b) == IF a < b THEN a ELSE b

\* ------------------------------------------------------------------------
\* str / int / zfill on decimal strings, kept as sequences of digits
\* ------------------------------------------------------------------------
RECURSIVE str(_)
str(n) == IF n < 10 THEN <<n>> ELSE str(n \div 10) \o <<n % 10>>

RECURSIVE int(_)
int(s) == IF Len(s) = 0 THEN 0
          ELSE 10 * int(SubSeq(s, 1, Len(s) - 1)) + s[Len(s)]

RECURSIVE zfill(_, _)
zfill(s, width) == IF Len(s) >= width THEN s ELSE zfill(<<0>> \o s, width)

_generate_code(n) == zfill(str(n), 6)

\* the codes a caller submits: every code the model can issue
SubmittedCodes == {_generate_code(n) : n \in RandBelow}

\* ------------------------------------------------------------------------
\* Store keys
\* ------------------------------------------------------------------------
_code_key(user_id) == <<"2fa:code", user_id>>
_attempt_key(user_id) == <<"2fa:attempts", user_id>>
_block_user_key(user_id) == <<"2fa:block:user", user_id>>
_block_ip_key(ip) == <<"2fa:block:ip", ip>>

\* ------------------------------------------------------------------------
\* The store's primitives, as functions of the store r
\* ------------------------------------------------------------------------
\* a store r is a function from its live keys to [val, ttl]
Present(r, k) == k \in DOMAIN r
\* GET answers None for a key that is not Present
GET(r, k) == r[k].val
SET(r, k, v, ex) == (k :> [val |-> v, ttl |-> ex]) @@ r
DELETE(r, k) == [j \in DOMAIN r \ {k} |-> r[j]]
INCR(r, k) == IF Present(r, k)
              THEN SET(r, k, str(int(r[k].val) + 1), r[k].ttl)
              ELSE SET(r, k, str(1), NoExpiry)
EXPIRE(r, k, seconds) == IF Present(r, k) THEN SET(r, k, r[k].val, seconds) ELSE r
\* the store after d seconds: a key whose ttl has run out is gone, and the
\* timestamps kept in the values lie d seconds further back
Elapse(r, d) ==
    [k \in {j \in DOMAIN r : r[j].ttl = NoExpiry \/ r[j].ttl > d} |->
        [val |-> IF k[1] = "2fa:code"
                 THEN [code |-> r[k].val.code, last_sent |-> r[k].val.last_sent - d]
                 ELSE r[k].val,
         ttl |-> IF r[k].ttl = NoExpiry THEN NoExpiry ELSE r[k].ttl - d]]

\* ------------------------------------------------------------------------
\* Outcomes of the service calls
\* ------------------------------------------------------------------------
Success == [status |-> 200, detail |-> "True"]
ResendTooSoon == [status |-> 429, detail |-> "Please wait before requesting another code."]
LockedOut == [status |-> 403, detail |-> "Too many attempts. Account temporarily blocked."]
CodeExpired == [status |-> 400, detail |-> "Code expired or not found."]
InvalidCode == [status |-> 400, detail |-> "Invalid code."]
\* fm.send_message raised: the exception leaves send_2fa_code_via_email
DeliveryFailed == [status |-> 500, detail |-> "send_message raised"]

\* ------------------------------------------------------------------------
\* twofa_service.py
\* ------------------------------------------------------------------------
\* _is_blocked reading the user's record only
_is_blocked_UserOnly(r, user_id, ip) ==
    Present(r, _block_user_key(user_id))

\* _is_blocked reading the address's record only
_is_blocked_IpOnly(r, user_id, ip) ==
    Present(r, _block_ip_key(ip))

_is_blocked(r, user_id, ip) ==
    LET user_block == Present(r, _block_user_key(user_id))
        ip_block == Present(r, _block_ip_key(ip))
    IN  user_block \/ ip_block

_increase_block(r, user_id, ip) ==
    LET current == _block_user_key(user_id)
        level0 == IF Present(r, current) THEN int(GET(r, current)) ELSE 0
        level == Min(level0, Len(times) - 1)
        block_minutes == times[level + 1]
        r1 == SET(r, _block_user_key(user_id), str(level + 1), block_minutes * 60)
    IN  SET(r1, _block_ip_key(ip), str(level + 1), block_minutes * 60)

\* _increase_block's level read from the address's record
current_level_OfIp(r, user_id, ip) ==
    IF Present(r, _block_ip_key(ip)) THEN int(GET(r, _block_ip_key(ip))) ELSE 0

\* _increase_block's read: int(current) if current else 0, current being the
\* user's record
current_level(r, user_id, ip) ==
    IF Present(r, _block_user_key(user_id)) THEN int(GET(r, _block_user_key(user_id))) ELSE 0

\* the record written with the level that was read put in unclamped
block_entry_RawLevel(level0) ==
    [val |-> str(level0 + 1), ttl |-> times[Min(level0, Len(times) - 1) + 1] * 60]

\* what _increase_block SETs, for the user and for the address alike, from
\* the level it has read
block_entry(level0) ==
    LET level == Min(level0, Len(times) - 1)
        block_minutes == times[level + 1]
    IN  [val |-> str(level + 1), ttl |-> block_minutes * 60]

\* the cooldown test with <= for <
TooSoon_Inclusive(r, user_id) ==
    /\ Present(r, _code_key(user_id))
    /\ (Now - GET(r, _code_key(user_id)).last_sent) <= TWO_FA_RESEND_SECONDS

\* the cooldown test of send_2fa_code_via_email
TooSoon(r, user_id) ==
    /\ Present(r, _code_key(user_id))
    /\ (Now - GET(r, _code_key(user_id)).last_sent) < TWO_FA_RESEND_SECONDS

\* send_2fa_code_via_email clearing the attempt counter when it stores a code
send_ResetsAttempts(r, user_id, n, delivered) ==
    LET entry == [code |-> _generate_code(n), last_sent |-> Now]
    IN  IF /\ Present(r, _code_key(user_id))
           /\ (Now - GET(r, _code_key(user_id)).last_sent) < TWO_FA_RESEND_SECONDS
        THEN [store |-> r, result |-> ResendTooSoon]
        ELSE [store |-> SET(DELETE(r, _attempt_key(user_id)), _code_key(user_id), entry,
                            TWO_FA_CODE_TTL_SECONDS),
              result |-> IF delivered THEN Success ELSE DeliveryFailed]

\* send_2fa_code_via_email storing the code only where none is stored (SET NX)
send_KeepsExisting(r, user_id, n, delivered) ==
    LET entry == [code |-> _generate_code(n), last_sent |-> Now]
    IN  IF /\ Present(r, _code_key(user_id))
           /\ (Now - GET(r, _code_key(user_id)).last_sent) < TWO_FA_RESEND_SECONDS
        THEN [store |-> r, result |-> ResendTooSoon]
        ELSE [store |-> IF Present(r, _code_key(user_id)) THEN r
                        ELSE SET(r, _code_key(user_id), entry, TWO_FA_CODE_TTL_SECONDS),
              result |-> IF delivered THEN Success ELSE DeliveryFailed]

\* send_2fa_code_via_email deleting the stored code when the mail send raises
send_RollsBack(r, user_id, n, delivered) ==
    LET entry == [code |-> _generate_code(n), last_sent |-> Now]
    IN  IF TooSoon(r, user_id)
        THEN [store |-> r, result |-> ResendTooSoon]
        ELSE IF delivered
             THEN [store |-> SET(r, _code_key(user_id), entry, TWO_FA_CODE_TTL_SECONDS),
                   result |-> Success]
             ELSE [store |-> DELETE(r, _code_key(user_id)), result |-> DeliveryFailed]

\* send_2fa_code_via_email(user); n is what the random source returns and
\* delivered tells whether fm.send_message returns or raises
send_2fa_code_via_email(r, user_id, n, delivered) ==
    LET code == _generate_code(n)
        entry == [code |-> code, last_sent |-> Now]
    IN  IF TooSoon(r, user_id)
        THEN [store |-> r, result |-> ResendTooSoon]
        ELSE [store |-> SET(r, _code_key(user_id), entry, TWO_FA_CODE_TTL_SECONDS),
              result |-> IF delivered THEN Success ELSE DeliveryFailed]

\* the wrong-code branch blocking only above TWO_FA_MAX_ATTEMPTS
WrongCode_LateLock(r, user_id, ip) ==
    LET r1 == INCR(r, _attempt_key(user_id))
        attempts == int(GET(r1, _attempt_key(user_id)))
        r2 == EXPIRE(r1, _attempt_key(user_id), TWO_FA_CODE_TTL_SECONDS)
    IN  [store |-> IF attempts > TWO_FA_MAX_ATTEMPTS
                   THEN _increase_block(r2, user_id, ip) ELSE r2,
         result |-> InvalidCode]

\* the wrong-code branch writing 1 to the counter where it should increment
WrongCode_SetsOne(r, user_id, ip) ==
    LET r2 == SET(r, _attempt_key(user_id), str(1), TWO_FA_CODE_TTL_SECONDS)
        attempts == int(GET(r2, _attempt_key(user_id)))
    IN  [store |-> IF attempts >= TWO_FA_MAX_ATTEMPTS
                   THEN _increase_block(r2, user_id, ip) ELSE r2,
         result |-> InvalidCode]

\* the wrong-code branch giving the counter its time to live only when it
\* creates it, the time the Challenge has left
WrongCode_TtlAtCreation(r, user_id, ip) ==
    LET r1 == INCR(r, _attempt_key(user_id))
        attempts == int(GET(r1, _attempt_key(user_id)))
        r2 == IF Present(r, _attempt_key(user_id)) THEN r1
              ELSE EXPIRE(r1, _attempt_key(user_id), r[_code_key(user_id)].ttl)
    IN  [store |-> IF attempts >= TWO_FA_MAX_ATTEMPTS
                   THEN _increase_block(r2, user_id, ip) ELSE r2,
         result |-> InvalidCode]

\* verify_code, the branch taken when the submitted code differs
WrongCode(r, user_id, ip) ==
    LET r1 == INCR(r, _attempt_key(user_id))
        attempts == int(GET(r1, _attempt_key(user_id)))
        r2 == EXPIRE(r1, _attempt_key(user_id), TWO_FA_CODE_TTL_SECONDS)
    IN  [store |-> IF attempts >= TWO_FA_MAX_ATTEMPTS
                   THEN _increase_block(r2, user_id, ip) ELSE r2,
         result |-> InvalidCode]

\* the right-code branch leaving the Challenge in the store
RightCode_KeepsChallenge(r, user_id) ==
    [store |-> DELETE(r, _attempt_key(user_id)), result |-> Success]

\* verify_code, the branch taken when the submitted code matches
RightCode(r, user_id) ==
    [store |-> DELETE(DELETE(r, _attempt_key(user_id)), _code_key(user_id)),
     result |-> Success]

\* verify_code treating a missing Challenge as a wrong code
verify_code_CountsMissing(r, user_id, code, ip) ==
    IF _is_blocked(r, user_id, ip)
    THEN [store |-> r, result |-> LockedOut]
    ELSE IF Present(r, _code_key(user_id)) /\ GET(r, _code_key(user_id)).code = code
         THEN RightCode(r, user_id)
         ELSE WrongCode(r, user_id, ip)

verify_code(r, user_id, code, ip) ==
    IF _is_blocked(r, user_id, ip)
    THEN [store |-> r, result |-> LockedOut]
    ELSE IF ~Present(r, _code_key(user_id))
         THEN [store |-> r, result |-> CodeExpired]
         ELSE LET stored_code == GET(r, _code_key(user_id)).code
              IN  IF stored_code # code
                  THEN WrongCode(r, user_id, ip)
                  ELSE RightCode(r, user_id)

\* ------------------------------------------------------------------------
\* core/security.py
\* ------------------------------------------------------------------------
\* encode('utf-8')[:72]
Truncate72(password) == SubSeq(password, 1, Min(Len(password), 72))

\* a bcrypt hash, kept as the bytes it was made from (the salt is left out)
get_password_hash(password) == [scheme |-> "bcrypt", of |-> Truncate72(password)]

verify_password(plain_password, hashed_password) ==
    hashed_password = [scheme |-> "bcrypt", of |-> Truncate72(plain_password)]

\* a signed token, kept as its claims; exp is the time it still has to live
create_access_token(data, expires_delta) == [sub |-> data.sub, exp |-> expires_delta]

\* generate_tmp_token(user_id): the claims of the correlation token
generate_tmp_token(user_id) ==
    [user_id |-> user_id, type |-> "tmp_token", exp |-> TMP_TOKEN_EXPIRE_MINUTES * 60]

\* ------------------------------------------------------------------------
\* api/endpoints/auth.py
\* ------------------------------------------------------------------------
Created == [status |-> 201, detail |-> "User successfully registered"]
EmailTaken == [status |-> 400, detail |-> "User with this email already exists"]
LoggedIn == [status |-> 200, detail |-> "bearer"]
BadCredentials == [status |-> 401, detail |-> "Invalid email or password"]
Inactive == [status |-> 400, detail |-> "User account is inactive"]

\* db.query(User).filter(User.email == email): the rows with that email
ByEmail(db, email) == {row \in db : row.email = email}

\* login's checks on the credentials: the user exists and the password verifies
CredentialsOk(db, email, password) ==
    \E row \in ByEmail(db, email) : verify_password(password, row.hashed_password)

\* login without the password check
login_NoPasswordCheck(db, email, password) ==
    IF ByEmail(db, email) = {}
    THEN [result |-> BadCredentials, token |-> {}]
    ELSE LET user == CHOOSE row \in ByEmail(db, email) : TRUE
         IN  [result |-> LoggedIn,
              token |-> {create_access_token([sub |-> user.email],
                                             ACCESS_TOKEN_EXPIRE_MINUTES * 60)}]

\* login(user_credentials, db): the answer and the access token, if one is made
login(db, email, password) ==
    IF ~CredentialsOk(db, email, password)
    THEN [result |-> BadCredentials, token |-> {}]
    ELSE LET user == CHOOSE row \in ByEmail(db, email) : TRUE
         IN  IF ~user.is_active
             THEN [result |-> Inactive, token |-> {}]
             ELSE [result |-> LoggedIn,
                   token |-> {create_access_token([sub |-> user.email],
                                                  ACCESS_TOKEN_EXPIRE_MINUTES * 60)}]

\* ------------------------------------------------------------------------
\* State
\* ------------------------------------------------------------------------
\* ------------------------------------------------------------------------
\* api/deps.py and api/endpoints/users.py
\* ------------------------------------------------------------------------
Unauthorized == [status |-> 401, detail |-> "Could not validate credentials"]
Updated == [status |-> 200, detail |-> "User data has been updated"]
Deleted == [status |-> 200, detail |-> "Account successfully deleted"]

\* no email, no password, no user
None == ""
NoPassword == <<>>

\* the email in the token's "sub", None when the payload has none; both kinds
\* of token are signed with SECRET_KEY and HS256, so the signature of either
\* verifies
decode_access_token(token) == IF "sub" \in DOMAIN token THEN token.sub ELSE None

\* get_current_user taking a token without "sub" for the user of its user_id
get_current_user_ById(db, token) ==
    IF "sub" \in DOMAIN token
    THEN ByEmail(db, token.sub)
    ELSE {row \in db : row.id = token.user_id}

\* the rows get_current_user resolves the bearer token to: the user with the
\* token's email, none when the token carries no email or no user has it
get_current_user(db, token) ==
    IF decode_access_token(token) = None THEN {}
    ELSE ByEmail(db, decode_access_token(token))

\* update_profile without the test for the email being taken
update_profile_NoCheck(db, current_user, email, password) ==
    IF email = None /\ password = NoPassword
    THEN [db |-> db, result |-> Updated]
    ELSE LET with_email == IF email # None /\ email # current_user.email
                           THEN [current_user EXCEPT !.email = email]
                           ELSE current_user
             with_password == IF password # NoPassword
                              THEN [with_email EXCEPT
                                      !.hashed_password = get_password_hash(password)]
                              ELSE with_email
         IN  [db |-> (db \ {current_user}) \cup {with_password}, result |-> Updated]

\* update_profile(user_update, current_user, db)
update_profile(db, current_user, email, password) ==
    IF email = None /\ password = NoPassword
    THEN [db |-> db, result |-> Updated]
    ELSE LET existing_user == {row \in db : row.email = email /\ row.id # current_user.id}
             with_email == IF email # None /\ email # current_user.email
                           THEN [current_user EXCEPT !.email = email]
                           ELSE current_user
             with_password == IF password # NoPassword
                              THEN [with_email EXCEPT
                                      !.hashed_password = get_password_hash(password)]
                              ELSE with_email
         IN  IF email # None /\ email # current_user.email /\ existing_user # {}
             THEN [db |-> db, result |-> EmailTaken]
             ELSE [db |-> (db \ {current_user}) \cup {with_password}, result |-> Updated]

\* delete_account(current_user, db)
delete_account(db, current_user) == [db |-> db \ {current_user}, result |-> Deleted]

VARIABLES
    REDIS,      \* the key-value store: live key -> [val, ttl]
    users,      \* the users table: a set of rows
    next_id,    \* the next value of the users.id sequence
    tokens,     \* the access tokens issued so far
    minted,     \* for each access token issued, the id of the user login issued it to
    tmp_tokens, \* the correlation tokens minted so far
    last,       \* the call made last and what it answered
    issued,     \* per user: the code stored by the latest send, or <<>>
    previous,   \* per user: the code stored by the send before the latest, or <<>>
    successes,  \* per user: verify_code successes since the latest send
    verified,   \* the users for whom verify_code has returned True
    wrongRun,   \* per user: InvalidCode answers against the current Challenge
    carried,    \* per user: an attempt counter was live when the Challenge was stored
    escCount,   \* per user: calls of _increase_block so far
    lastBlock,  \* per user: block_minutes of the latest _increase_block, or 0
    sinceSend,  \* per user: seconds since the latest send that returned True, or Never
    ticks,      \* advances of the clock so far
    req         \* per request slot: where an interleaved verify_code stands, and its locals

store == <<REDIS>>
database == <<users, next_id, tokens, minted, tmp_tokens>>
history == <<issued, previous, successes, verified, wrongRun, carried, escCount, lastBlock, sinceSend>>
vars == <<REDIS, users, next_id, tokens, minted, tmp_tokens, last, issued, previous, successes, verified, wrongRun,
          carried, escCount, lastBlock, sinceSend, ticks, req>>

NoAnswer == [status |-> 0, detail |-> ""]
Call(op, user, ip, code, email, password, result) ==
    [op |-> op, user |-> user, ip |-> ip, code |-> code, email |-> email,
     password |-> password, result |-> result]
NoCall == Call("none", 0, "", <<>>, "", <<>>, NoAnswer)

\* the request slots of the interleaved runs
Reqs == {"a", "b"}
\* a slot with no request in it
Idle == [pc |-> "idle", user |-> 0, ip |-> "", code |-> <<>>, user_block |-> FALSE,
         attempts |-> 0, level |-> 0]

Init ==
    /\ req = [q \in Reqs |-> Idle]
    /\ REDIS = [k \in {} |-> NoCall]
    /\ users = {}
    /\ next_id = 1
    /\ tokens = {}
    /\ minted = {}
    /\ tmp_tokens = {}
    /\ last = NoCall
    /\ issued = [u \in UserIds |-> <<>>]
    /\ previous = [u \in UserIds |-> <<>>]
    /\ successes = [u \in UserIds |-> 0]
    /\ verified = {}
    /\ wrongRun = [u \in UserIds |-> 0]
    /\ carried = [u \in UserIds |-> FALSE]
    /\ escCount = [u \in UserIds |-> 0]
    /\ lastBlock = [u \in UserIds |-> 0]
    /\ sinceSend = [u \in UserIds |-> Never]
    /\ ticks = 0

Live(k) == Present(REDIS, k)

\* ------------------------------------------------------------------------
\* Actions of the code service
\* ------------------------------------------------------------------------
Send(u, n, delivered) ==
    LET out == send_2fa_code_via_email(REDIS, u, n, delivered)
        stored == out.result # ResendTooSoon
    IN  /\ REDIS' = out.store
        /\ last' = Call("send", u, "", IF stored THEN _generate_code(n) ELSE <<>>,
                        "", <<>>, out.result)
        /\ issued' = IF stored THEN [issued EXCEPT ![u] = _generate_code(n)] ELSE issued
        /\ previous' = IF stored THEN [previous EXCEPT ![u] = issued[u]] ELSE previous
        /\ successes' = IF stored THEN [successes EXCEPT ![u] = 0] ELSE successes
        /\ wrongRun' = IF stored THEN [wrongRun EXCEPT ![u] = 0] ELSE wrongRun
        /\ carried' = IF stored THEN [carried EXCEPT ![u] = Live(_attempt_key(u))]
                      ELSE carried
        /\ sinceSend' = IF out.result = Success THEN [sinceSend EXCEPT ![u] = 0]
                        ELSE sinceSend
        /\ UNCHANGED <<database, verified, escCount, lastBlock, ticks, req>>

Verify(u, code, ip) ==
    LET out == verify_code(REDIS, u, code, ip)
        escalates == /\ out.result = InvalidCode
                     /\ Present(out.store, _block_user_key(u))
    IN  /\ escalates => escCount[u] < MaxEsc
        /\ REDIS' = out.store
        /\ last' = Call("verify", u, ip, code, "", <<>>, out.result)
        /\ successes' = IF out.result = Success
                        THEN [successes EXCEPT ![u] = @ + 1] ELSE successes
        /\ verified' = IF out.result = Success THEN verified \cup {u} ELSE verified
        /\ wrongRun' = IF out.result = InvalidCode
                       THEN [wrongRun EXCEPT ![u] = @ + 1] ELSE wrongRun
        /\ escCount' = IF escalates THEN [escCount EXCEPT ![u] = @ + 1] ELSE escCount
        /\ lastBlock' = IF escalates
                        THEN [lastBlock EXCEPT ![u] = out.store[_block_user_key(u)].ttl \div 60]
                        ELSE lastBlock
        /\ UNCHANGED <<database, issued, previous, carried, sinceSend, ticks, req>>

\* the instants ahead at which a timer runs out: a key expires, or a resend
\* cooldown ends
Deadlines ==
    {REDIS[k].ttl : k \in {j \in DOMAIN REDIS : REDIS[j].ttl # NoExpiry}}
    \cup {TWO_FA_RESEND_SECONDS - (Now - GET(REDIS, _code_key(u)).last_sent) :
            u \in {v \in UserIds : TooSoon(REDIS, v)}}
    \cup {TWO_FA_RESEND_SECONDS - sinceSend[u] :
            u \in {v \in UserIds : sinceSend[v] # Never /\ sinceSend[v] < TWO_FA_RESEND_SECONDS}}

\* the instants one second before a lockout record runs out
Eves ==
    {REDIS[k].ttl - 1 :
       k \in {j \in DOMAIN REDIS : j[1] \in {"2fa:block:user", "2fa:block:ip"} /\ REDIS[j].ttl > 1}}

\* d seconds pass
Tick(d) ==
    /\ ticks < MaxTicks
    /\ ticks' = ticks + 1
    /\ REDIS' = Elapse(REDIS, d)
    /\ sinceSend' = [u \in UserIds |->
                       IF sinceSend[u] = Never THEN Never
                       ELSE Min(sinceSend[u] + d, TWO_FA_RESEND_SECONDS)]
    /\ last' = Call("tick", 0, "", <<>>, "", <<>>, NoAnswer)
    /\ UNCHANGED <<database, issued, previous, successes, verified, wrongRun, carried, escCount,
                   lastBlock, req>>

\* ------------------------------------------------------------------------
\* verify_code as the event loop runs it: each await of a store command is a
\* step of its own, and the steps of the requests in flight interleave
\* ------------------------------------------------------------------------
Return(q, result) ==
    /\ req' = [req EXCEPT ![q] = Idle]
    /\ last' = Call("verify", req[q].user, req[q].ip, req[q].code, "", <<>>, result)

Goto(q, pc) ==
    /\ req' = [req EXCEPT ![q].pc = pc]
    /\ UNCHANGED last

\* the request arrives; _is_blocked: GET 2fa:block:user
BeginVerify(q, u, code, ip) ==
    /\ req[q].pc = "idle"
    /\ req' = [req EXCEPT ![q] = [Idle EXCEPT !.pc = "ip_block", !.user = u, !.ip = ip,
                                              !.code = code,
                                              !.user_block = Present(REDIS, _block_user_key(u))]]
    /\ UNCHANGED <<store, database, last, history, ticks>>

\* _is_blocked: GET 2fa:block:ip, then the 403 or on to the code
GetIpBlock(q) ==
    /\ req[q].pc = "ip_block"
    /\ LET ip_block == Present(REDIS, _block_ip_key(req[q].ip))
       IN  IF req[q].user_block \/ ip_block
           THEN Return(q, LockedOut)
           ELSE Goto(q, "get_code")
    /\ UNCHANGED <<store, database, history, ticks>>

\* GET 2fa:code and the comparison
GetCode(q) ==
    /\ req[q].pc = "get_code"
    /\ LET u == req[q].user
       IN  IF ~Present(REDIS, _code_key(u))
           THEN /\ Return(q, CodeExpired)
                /\ UNCHANGED <<successes, wrongRun>>
           ELSE IF GET(REDIS, _code_key(u)).code # req[q].code
                THEN /\ Goto(q, "incr")
                     /\ wrongRun' = [wrongRun EXCEPT ![u] = @ + 1]
                     /\ UNCHANGED successes
                ELSE /\ Goto(q, "delete_attempts")
                     /\ successes' = [successes EXCEPT ![u] = @ + 1]
                     /\ UNCHANGED wrongRun
    /\ UNCHANGED <<store, database, issued, previous, verified, carried, escCount, lastBlock,
                   sinceSend, ticks>>

\* attempts = INCR 2fa:attempts
Incr(q) ==
    /\ req[q].pc = "incr"
    /\ REDIS' = INCR(REDIS, _attempt_key(req[q].user))
    /\ req' = [req EXCEPT ![q].pc = "expire",
                          ![q].attempts = int(GET(REDIS', _attempt_key(req[q].user)))]
    /\ UNCHANGED <<database, last, history, ticks>>

\* EXPIRE 2fa:attempts, then _increase_block or the 400
Expire(q) ==
    /\ req[q].pc = "expire"
    /\ REDIS' = EXPIRE(REDIS, _attempt_key(req[q].user), TWO_FA_CODE_TTL_SECONDS)
    /\ IF req[q].attempts >= TWO_FA_MAX_ATTEMPTS
       THEN Goto(q, "increase_block")
       ELSE Return(q, InvalidCode)
    /\ UNCHANGED <<database, history, ticks>>

\* _increase_block: GET 2fa:block:user
ReadBlockLevel(q) ==
    /\ req[q].pc = "increase_block"
    /\ req' = [req EXCEPT ![q].pc = "set_user_block",
                          ![q].level = current_level(REDIS, req[q].user, req[q].ip)]
    /\ UNCHANGED <<store, database, last, history, ticks>>

\* _increase_block: SET 2fa:block:user
SetUserBlock(q) ==
    /\ req[q].pc = "set_user_block"
    /\ LET entry == block_entry(req[q].level)
           u == req[q].user
       IN  /\ REDIS' = SET(REDIS, _block_user_key(u), entry.val, entry.ttl)
           /\ escCount' = [escCount EXCEPT ![u] = @ + 1]
           /\ lastBlock' = [lastBlock EXCEPT ![u] = entry.ttl \div 60]
    /\ Goto(q, "set_ip_block")
    /\ UNCHANGED <<database, issued, previous, successes, verified, wrongRun, carried,
                   sinceSend, ticks>>

\* _increase_block: SET 2fa:block:ip, then the 400
SetIpBlock(q) ==
    /\ req[q].pc = "set_ip_block"
    /\ LET entry == block_entry(req[q].level)
       IN  REDIS' = SET(REDIS, _block_ip_key(req[q].ip), entry.val, entry.ttl)
    /\ Return(q, InvalidCode)
    /\ UNCHANGED <<database, history, ticks>>

\* DELETE 2fa:attempts
DeleteAttempts(q) ==
    /\ req[q].pc = "delete_attempts"
    /\ REDIS' = DELETE(REDIS, _attempt_key(req[q].user))
    /\ Goto(q, "delete_code")
    /\ UNCHANGED <<database, history, ticks>>

\* DELETE 2fa:code, then return True
DeleteCode(q) ==
    /\ req[q].pc = "delete_code"
    /\ REDIS' = DELETE(REDIS, _code_key(req[q].user))
    /\ Return(q, Success)
    /\ verified' = verified \cup {req[q].user}
    /\ UNCHANGED <<database, issued, previous, successes, wrongRun, carried, escCount,
                   lastBlock, sinceSend, ticks>>

\* the awaited EXPIRE does not run: the request's task is cancelled at the
\* await, or the command raises; the exception leaves verify_code
ExpireLost == [status |-> 500, detail |-> "expire raised"]

LoseExpire(q) ==
    /\ req[q].pc = "expire"
    /\ req[q].attempts <= MaxLost
    /\ Return(q, ExpireLost)
    /\ UNCHANGED <<store, database, history, ticks>>

\* ------------------------------------------------------------------------
\* Actions of the authentication endpoints
\* ------------------------------------------------------------------------
Register(email, password) ==
    LET existing_user == ByEmail(users, email)
        new_user == [id |-> next_id, email |-> email,
                     hashed_password |-> get_password_hash(password),
                     is_active |-> TRUE]
    IN  /\ next_id <= MaxRows
        /\ IF existing_user # {}
           THEN /\ UNCHANGED <<users, next_id>>
                /\ last' = Call("register", 0, "", <<>>, email, password, EmailTaken)
           ELSE /\ users' = users \cup {new_user}
                /\ next_id' = next_id + 1
                /\ last' = Call("register", new_user.id, "", <<>>, email, password, Created)
        /\ UNCHANGED <<store, tokens, minted, tmp_tokens, history, ticks, req>>

Login(email, password) ==
    LET out == login(users, email, password)
    IN  /\ tokens' = tokens \cup out.token
        /\ minted' = minted \cup {[token |-> t, id |-> row.id] :
                                     t \in out.token, row \in ByEmail(users, email)}
        /\ last' = Call("login",
                        IF out.result = LoggedIn
                        THEN (CHOOSE row \in ByEmail(users, email) : TRUE).id ELSE 0,
                        "", <<>>, email, password, out.result)
        /\ UNCHANGED <<store, users, next_id, tmp_tokens, history, ticks, req>>

\* ------------------------------------------------------------------------
\* Actions of the user endpoints; token is the bearer token of the request
\* ------------------------------------------------------------------------
UpdateProfile(token, email, password) ==
    LET current == get_current_user(users, token)
    IN  /\ IF current = {}
           THEN /\ UNCHANGED users
                /\ last' = Call("update", 0, "", <<>>, email, password, Unauthorized)
           ELSE LET current_user == CHOOSE row \in current : TRUE
                    out == update_profile(users, current_user, email, password)
                IN  /\ users' = out.db
                    /\ last' = Call("update", current_user.id, "", <<>>, email, password,
                                    out.result)
        /\ UNCHANGED <<store, next_id, tokens, minted, tmp_tokens, history, ticks, req>>

DeleteAccount(token) ==
    LET current == get_current_user(users, token)
    IN  /\ IF current = {}
           THEN /\ UNCHANGED users
                /\ last' = Call("delete", 0, "", <<>>, None, NoPassword, Unauthorized)
           ELSE LET current_user == CHOOSE row \in current : TRUE
                    out == delete_account(users, current_user)
                IN  /\ users' = out.db
                    /\ last' = Call("delete", current_user.id, "", <<>>, None, NoPassword,
                                    out.result)
        /\ UNCHANGED <<store, next_id, tokens, minted, tmp_tokens, history, ticks, req>>

\* a correlation token is minted for a user
TmpTokenMinted == [status |-> 200, detail |-> "tmp_token"]

GenerateTmpToken(user_id) ==
    /\ tmp_tokens' = tmp_tokens \cup {generate_tmp_token(user_id)}
    /\ last' = Call("tmp_token", user_id, "", <<>>, None, NoPassword, TmpTokenMinted)
    /\ UNCHANGED <<store, users, next_id, tokens, minted, history, ticks, req>>

\* ------------------------------------------------------------------------
\* Specifications
\* ------------------------------------------------------------------------
\* one user's calls, from either address, as time passes
Solo == {1}

Next ==
    \/ \E u \in Solo, n \in RandBelow, delivered \in BOOLEAN : Send(u, n, delivered)
    \/ \E u \in Solo, code \in SubmittedCodes, ip \in Ips : Verify(u, code, ip)
    \/ \E d \in Deadlines : Tick(d)

Spec == Init /\ [][Next]_vars

\* two users behind two addresses, within one instant
NextShared ==
    \/ \E u \in UserIds, n \in RandBelow : Send(u, n, TRUE)
    \/ \E u \in UserIds, code \in SubmittedCodes, ip \in Ips : Verify(u, code, ip)

SpecShared == Init /\ [][NextShared]_vars

\* registration and login, with the code service called for the first user
\* registered
NextLogin ==
    \/ \E e \in Emails, p \in Passwords : Register(e, p)
    \/ \E e \in Emails, p \in Passwords : Login(e, p)
    \/ \E row \in {x \in users : x.id \in Solo}, n \in RandBelow : Send(row.id, n, TRUE)
    \/ \E row \in {x \in users : x.id \in Solo}, code \in SubmittedCodes :
          Verify(row.id, code, "10.0.0.1")

SpecLogin == Init /\ [][NextLogin]_vars

\* the accounts: registering, logging in, changing the profile, deleting
NextUsers ==
    \/ \E e \in Emails, p \in Passwords : Register(e, p)
    \/ \E e \in Emails, p \in Passwords : Login(e, p)
    \/ \E token \in tokens, e \in Emails \cup {None}, p \in Passwords \cup {NoPassword} :
          UpdateProfile(token, e, p)
    \/ \E token \in tokens : DeleteAccount(token)

SpecUsers == Init /\ [][NextUsers]_vars

\* one user's verify_code requests in flight together, within one instant
NextConc ==
    \/ \E u \in Solo : Send(u, 0, TRUE)
    \/ \E q \in Reqs, u \in Solo, code \in SubmittedCodes, ip \in Ips : BeginVerify(q, u, code, ip)
    \/ \E q \in Reqs : GetIpBlock(q)
    \/ \E q \in Reqs : GetCode(q)
    \/ \E q \in Reqs : Incr(q)
    \/ \E q \in Reqs : Expire(q)
    \/ \E q \in Reqs : ReadBlockLevel(q)
    \/ \E q \in Reqs : SetUserBlock(q)
    \/ \E q \in Reqs : SetIpBlock(q)
    \/ \E q \in Reqs : DeleteAttempts(q)
    \/ \E q \in Reqs : DeleteCode(q)

SpecConc == Init /\ [][NextConc]_vars

\* escalations in flight over lockout records that earlier escalations wrote:
\* each request has had its wrong code counted (attempts >= TWO_FA_MAX_ATTEMPTS)
\* and stands before _increase_block; the Challenge and the counter have been
\* deleted by a verify_code that succeeded meanwhile
BlockKeys == {_block_user_key(u) : u \in Solo} \cup {_block_ip_key(ip) : ip \in Ips}

InitBlock ==
    /\ \E S \in SUBSET BlockKeys, lv \in [BlockKeys -> 1..Len(times)] :
          REDIS = [k \in S |-> block_entry(lv[k] - 1)]
    /\ req \in [Reqs -> {[Idle EXCEPT !.pc = "increase_block", !.user = u, !.ip = ip,
                                      !.code = _generate_code(13579),
                                      !.attempts = TWO_FA_MAX_ATTEMPTS]
                          : u \in Solo, ip \in Ips}]
    /\ users = {}
    /\ next_id = 1
    /\ tokens = {}
    /\ minted = {}
    /\ tmp_tokens = {}
    /\ last = NoCall
    /\ issued = [u \in UserIds |-> <<>>]
    /\ previous = [u \in UserIds |-> <<>>]
    /\ successes = [u \in UserIds |-> 0]
    /\ verified = {}
    /\ wrongRun = [u \in UserIds |-> 0]
    /\ carried = [u \in UserIds |-> FALSE]
    /\ escCount = [u \in UserIds |-> 0]
    /\ lastBlock = [u \in UserIds |-> 0]
    /\ sinceSend = [u \in UserIds |-> Never]
    /\ ticks = 0

NextBlock ==
    \/ \E q \in Reqs : ReadBlockLevel(q)
    \/ \E q \in Reqs : SetUserBlock(q)
    \/ \E q \in Reqs : SetIpBlock(q)

SpecBlock == InitBlock /\ [][NextBlock]_vars

\* one request at a time, command by command, any of whose EXPIREs may be
\* lost, as time passes
NextAbort ==
    \/ \E u \in Solo : Send(u, 0, TRUE)
    \/ \E u \in Solo, code \in SubmittedCodes : BeginVerify("a", u, code, "10.0.0.1")
    \/ GetIpBlock("a")
    \/ GetCode("a")
    \/ Incr("a")
    \/ Expire("a")
    \/ LoseExpire("a")
    \/ ReadBlockLevel("a")
    \/ SetUserBlock("a")
    \/ SetIpBlock("a")
    \/ DeleteAttempts("a")
    \/ DeleteCode("a")
    \/ \E d \in Deadlines : Tick(d)

SpecAbort == Init /\ [][NextAbort]_vars

\* one user's calls around the end of a lockout
NextLock ==
    \/ \E u \in Solo, n \in RandBelow : Send(u, n, TRUE)
    \/ \E u \in Solo, code \in SubmittedCodes, ip \in Ips : Verify(u, code, ip)
    \/ \E d \in Deadlines \cup Eves : Tick(d)

SpecLock == Init /\ [][NextLock]_vars

\* the accounts, with correlation tokens minted and presented as bearer tokens
NextTmp ==
    \/ \E e \in Emails : Register(e, <<"t", "e", "s", "t">>)
    \/ \E e \in Emails : Login(e, <<"t", "e", "s", "t">>)
    \/ \E row \in users : GenerateTmpToken(row.id)
    \/ \E token \in tokens, e \in Emails : UpdateProfile(token, e, NoPassword)
    \/ \E token \in tmp_tokens, e \in Emails : UpdateProfile(token, e, NoPassword)
    \/ \E token \in tokens : DeleteAccount(token)
    \/ \E token \in tmp_tokens : DeleteAccount(token)

SpecTmp == Init /\ [][NextTmp]_vars

\* ------------------------------------------------------------------------
\* Properties
\* ------------------------------------------------------------------------
\* the value of the user's attempt counter, 0 when there is none
AttemptsOf(r, u) == IF Present(r, _attempt_key(u)) THEN int(GET(r, _attempt_key(u))) ELSE 0

\* this step is a verify_code call (last' holds its arguments and its answer)
VerifyStep == last'.op = "verify"
\* this step is a send_2fa_code_via_email call
SendStep == last'.op = "send"

\* C1: for a user who is not locked out, verify_code with the stored code of a
\* live Challenge returns True and deletes the Challenge and the attempt
\* counter; every later verify_code with that code, with no new Challenge
\* stored in between, answers 'Code expired or not found.'; so a stored code
\* yields True at most once.
C1_SingleUse ==
    /\ [][VerifyStep /\ ~_is_blocked(REDIS, last'.user, last'.ip) =>
            LET u == last'.user
            IN  /\ (Live(_code_key(u)) /\ last'.code = GET(REDIS, _code_key(u)).code) =>
                     /\ last'.result = Success
                     /\ ~Present(REDIS', _code_key(u))
                     /\ ~Present(REDIS', _attempt_key(u))
                /\ (successes[u] >= 1 /\ last'.code = issued[u]) =>
                     last'.result = CodeExpired]_vars
    /\ [](\A u \in UserIds : successes[u] <= 1)

C1_Witness ==
    /\ last.op = "verify"
    /\ last.result = CodeExpired
    /\ successes[last.user] = 1
    /\ last.code = issued[last.user]

\* C2: while the Challenge is live, once TWO_FA_MAX_ATTEMPTS wrong codes have
\* been answered 'Invalid code.' for a user, the next verify_code for that user
\* is answered 403 whatever the code and the address.
C2_LockAfterMax ==
    [][VerifyStep /\ wrongRun[last'.user] = TWO_FA_MAX_ATTEMPTS
                  /\ Live(_code_key(last'.user))
          => last'.result = LockedOut]_vars

C2_Witness ==
    /\ last.op = "verify"
    /\ last.result = LockedOut
    /\ wrongRun[last.user] = TWO_FA_MAX_ATTEMPTS
    /\ Live(_code_key(last.user))
    /\ last.code = GET(REDIS, _code_key(last.user)).code

\* C3: the k-th call of _increase_block for a user blocks for the k-th entry
\* of times (the last entry from the fourth call on).
C3_Progressive ==
    \A u \in UserIds :
        escCount[u] >= 1 => lastBlock[u] = times[Min(escCount[u], Len(times))]

\* C4: a send made less than TWO_FA_RESEND_SECONDS after the user's previous
\* send that returned True is answered 429 and leaves the store as it was,
\* whatever verify_code calls came in between; a send made later stores a
\* Challenge with last_sent = now.
C4_Cooldown ==
    [][SendStep =>
         LET u == last'.user
         IN  sinceSend[u] # Never =>
               IF sinceSend[u] < TWO_FA_RESEND_SECONDS
               THEN last'.result = ResendTooSoon /\ REDIS' = REDIS
               ELSE /\ last'.result # ResendTooSoon
                    /\ Present(REDIS', _code_key(u))
                    /\ GET(REDIS', _code_key(u)).last_sent = Now]_vars

\* C5 as claimed: login answers with an access token only for a user for whom
\* verify_code has returned True.
C5_TwoSteps ==
    (last.op = "login" /\ last.result = LoggedIn) => last.user \in verified

\* C5 as amended: an access token is issued by login, and by login only, as
\* soon as the credentials check out (the email is a user's, the password
\* verifies against that user's hash, the account is active); no verify_code
\* success is needed, and the code service issues no access token.
C5_PasswordOnly ==
    /\ [][tokens' # tokens => last'.op = "login"]_vars
    /\ [](last.op = "login" /\ last.result = LoggedIn =>
            /\ \E row \in users : /\ row.email = last.email
                                  /\ row.id = last.user
                                  /\ row.is_active
                                  /\ row.hashed_password = get_password_hash(last.password)
            /\ [sub |-> last.email, exp |-> ACCESS_TOKEN_EXPIRE_MINUTES * 60] \in tokens)
    /\ [](last.op = "login" /\ last.result # LoggedIn =>
            ~\E row \in users : /\ row.email = last.email
                                /\ row.is_active
                                /\ row.hashed_password = get_password_hash(last.password))

C5_Witness ==
    /\ last.op = "login"
    /\ last.result = LoggedIn
    /\ last.user \notin verified
    /\ tokens # {}

\* C6 as claimed: with a live lockout record for the user, send is answered
\* 403 and leaves the store as it was.  (send_2fa_code_via_email is given no
\* address, so only the user's record can be consulted.)
C6_SendLocked ==
    [][SendStep /\ Present(REDIS, _block_user_key(last'.user)) =>
         last'.result = LockedOut /\ REDIS' = REDIS]_vars

\* C6 as amended: a live lockout record does not stop send: the cooldown is
\* checked as usual; inside it the call is answered 429 and the store is left
\* as it was, otherwise the new code is stored over the Challenge; the lockout
\* records and the attempt counter stay as they were.
C6_SendIgnoresLock ==
    [][SendStep /\ Present(REDIS, _block_user_key(last'.user)) =>
         LET u == last'.user
             cooling == /\ Live(_code_key(u))
                        /\ Now - GET(REDIS, _code_key(u)).last_sent < TWO_FA_RESEND_SECONDS
         IN  IF cooling
             THEN last'.result = ResendTooSoon /\ REDIS' = REDIS
             ELSE /\ last'.result \in {Success, DeliveryFailed}
                  /\ REDIS' = SET(REDIS, _code_key(u),
                                  [code |-> last'.code, last_sent |-> Now],
                                  TWO_FA_CODE_TTL_SECONDS)]_vars

C6_Witness ==
    /\ last.op = "send"
    /\ last.result = Success
    /\ Present(REDIS, _block_user_key(last.user))
    /\ GET(REDIS, _code_key(last.user)).last_sent = Now

\* C7: verify_code is answered 403 whenever the user's or the address's
\* lockout record is live, and then leaves the whole store (Challenge, attempt
\* counter, both lockout records with their ttl) as it was.
C7_LockedFrame ==
    [][VerifyStep /\ (\/ Present(REDIS, _block_user_key(last'.user))
                      \/ Present(REDIS, _block_ip_key(last'.ip)))
          => last'.result = LockedOut /\ REDIS' = REDIS]_vars

\* another user, holding a live Challenge, is refused from the blocked address
C7_Witness ==
    /\ last.op = "verify"
    /\ last.result = LockedOut
    /\ ~Present(REDIS, _block_user_key(last.user))
    /\ Present(REDIS, _block_ip_key(last.ip))
    /\ Live(_code_key(last.user))
    /\ last.code = GET(REDIS, _code_key(last.user)).code

\* C8 as claimed: for a user who is not locked out, after k wrong codes against
\* the live Challenge, 1 <= k < TWO_FA_MAX_ATTEMPTS, the attempt counter is k.
C8_CounterIsK ==
    \A u \in UserIds :
        (/\ Live(_code_key(u))
         /\ ~Present(REDIS, _block_user_key(u))
         /\ wrongRun[u] >= 1
         /\ wrongRun[u] < TWO_FA_MAX_ATTEMPTS) => AttemptsOf(REDIS, u) = wrongRun[u]

\* C8 as amended: for a user who is not locked out and whose Challenge was
\* stored while no attempt counter was live, after k < TWO_FA_MAX_ATTEMPTS
\* wrong codes against that Challenge the counter is k; a further wrong code is
\* answered 'Invalid code.', leaves the Challenge as it was and makes the
\* counter k + 1; the right code returns True and leaves neither counter nor
\* Challenge.
C8_FreshCounterIsK ==
    /\ [](\A u \in UserIds :
            (Live(_code_key(u)) /\ ~carried[u] /\ wrongRun[u] < TWO_FA_MAX_ATTEMPTS)
               => AttemptsOf(REDIS, u) = wrongRun[u])
    /\ [][(/\ VerifyStep
           /\ ~_is_blocked(REDIS, last'.user, last'.ip)
           /\ Live(_code_key(last'.user))
           /\ ~carried[last'.user]
           /\ wrongRun[last'.user] < TWO_FA_MAX_ATTEMPTS) =>
            LET u == last'.user
            IN  IF last'.code # GET(REDIS, _code_key(u)).code
                THEN /\ last'.result = InvalidCode
                     /\ Present(REDIS', _code_key(u))
                     /\ REDIS'[_code_key(u)] = REDIS[_code_key(u)]
                     /\ AttemptsOf(REDIS', u) = wrongRun[u] + 1
                ELSE /\ last'.result = Success
                     /\ ~Present(REDIS', _code_key(u))
                     /\ ~Present(REDIS', _attempt_key(u))]_vars

C8_Witness ==
    /\ last.op = "verify"
    /\ last.result = Success
    /\ wrongRun[last.user] >= 1
    /\ ~carried[last.user]

\* C9: with no live Challenge and neither the user nor the address locked out,
\* verify_code answers 'Code expired or not found.' for every code and leaves
\* the store as it was.
C9_NoChallenge ==
    [][(/\ VerifyStep
        /\ ~Live(_code_key(last'.user))
        /\ ~Present(REDIS, _block_user_key(last'.user))
        /\ ~Present(REDIS, _block_ip_key(last'.ip)))
          => last'.result = CodeExpired /\ REDIS' = REDIS]_vars

\* the code issued last is refused after its Challenge has expired unused
C9_Witness ==
    /\ last.op = "verify"
    /\ last.result = CodeExpired
    /\ last.code = issued[last.user]
    /\ successes[last.user] = 0

\* C10: a send that stores a Challenge changes nothing else in the store (a
\* live attempt counter and the lockout records stay as they are), and the
\* user is locked out whenever the counter has reached TWO_FA_MAX_ATTEMPTS,
\* however few wrong codes were submitted against the current Challenge.
C10_CounterSurvivesResend ==
    /\ [][SendStep /\ last'.result # ResendTooSoon =>
            /\ DOMAIN REDIS' = DOMAIN REDIS \cup {_code_key(last'.user)}
            /\ \A k \in DOMAIN REDIS \ {_code_key(last'.user)} : REDIS'[k] = REDIS[k]]_vars
    /\ [](\A u \in UserIds :
            AttemptsOf(REDIS, u) >= TWO_FA_MAX_ATTEMPTS => Present(REDIS, _block_user_key(u)))

\* locked out by a wrong code although fewer than TWO_FA_MAX_ATTEMPTS were
\* submitted against the current Challenge
C10_Witness ==
    /\ last.op = "verify"
    /\ last.result = InvalidCode
    /\ Present(REDIS, _block_user_key(last.user))
    /\ Live(_code_key(last.user))
    /\ wrongRun[last.user] < TWO_FA_MAX_ATTEMPTS
    /\ AttemptsOf(REDIS, last.user) = TWO_FA_MAX_ATTEMPTS

\* C11: a send that is not refused writes the user's Challenge anew: the new
\* code, last_sent = now and the full TWO_FA_CODE_TTL_SECONDS; the Challenge in
\* the store is always the one issued last; and the code issued before it,
\* when it differs, is answered 'Invalid code.' and counted as an attempt (the
\* user and the address not being locked out).
C11_Overwrite ==
    /\ [][SendStep /\ last'.result # ResendTooSoon =>
            /\ Present(REDIS', _code_key(last'.user))
            /\ REDIS'[_code_key(last'.user)] =
                 [val |-> [code |-> last'.code, last_sent |-> Now],
                  ttl |-> TWO_FA_CODE_TTL_SECONDS]]_vars
    /\ [](\A u \in UserIds : Live(_code_key(u)) => GET(REDIS, _code_key(u)).code = issued[u])
    /\ [][(/\ VerifyStep
           /\ ~_is_blocked(REDIS, last'.user, last'.ip)
           /\ Live(_code_key(last'.user))
           /\ last'.code = previous[last'.user]
           /\ last'.code # GET(REDIS, _code_key(last'.user)).code) =>
            /\ last'.result = InvalidCode
            /\ AttemptsOf(REDIS', last'.user) = AttemptsOf(REDIS, last'.user) + 1]_vars

C11_Witness ==
    /\ last.op = "verify"
    /\ last.result = InvalidCode
    /\ last.code = previous[last.user]
    /\ Live(_code_key(last.user))
    /\ last.code # GET(REDIS, _code_key(last.user)).code

\* C13: when the mail send raises, the Challenge written just before stays in
\* the store with its code, last_sent and TTL, nothing else in the store being
\* touched; a verify_code with that code while it is live (user and address not
\* locked out) returns True.  sinceSend = Never says that no send of this user
\* has been delivered, so a live Challenge was stored by a send whose delivery
\* failed.
C13_NoRollback ==
    /\ [][SendStep /\ last'.result = DeliveryFailed =>
            REDIS' = SET(REDIS, _code_key(last'.user),
                         [code |-> last'.code, last_sent |-> Now],
                         TWO_FA_CODE_TTL_SECONDS)]_vars
    /\ [][(/\ VerifyStep
           /\ sinceSend[last'.user] = Never
           /\ Live(_code_key(last'.user))
           /\ last'.code = issued[last'.user]
           /\ ~_is_blocked(REDIS, last'.user, last'.ip)) =>
            last'.result = Success]_vars

C13_Witness ==
    /\ last.op = "verify"
    /\ last.result = Success
    /\ sinceSend[last.user] = Never
    /\ ticks > 0

\* C14: a send that stored a code returns True, also when the mail send raised.
C14_DeliveryNonFatal ==
    (last.op = "send" /\ last.code # <<>>) => last.result = Success

\* C17: no two users have the same email; register with an email that belongs
\* to a user answers 400 and leaves the users as they are; update_profile to an
\* email that belongs to another user answers 400 and leaves the users (the
\* caller's email too) as they are.
C17_UniqueEmail ==
    /\ [](\A a, b \in users : (a.email = b.email \/ a.id = b.id) => a = b)
    /\ [][(last'.op = "register" /\ ByEmail(users, last'.email) # {}) =>
            (last'.result = EmailTaken /\ users' = users)]_vars
    /\ [][(/\ last'.op = "update"
           /\ last'.user # 0
           /\ \E row \in users : row.email = last'.email /\ row.id # last'.user) =>
            (last'.result = EmailTaken /\ users' = users)]_vars

C17_Witness ==
    /\ last.op = "update"
    /\ last.result = EmailTaken
    /\ next_id > Cardinality(users) + 1

\* no request is in flight
AllReturned == \A q \in Reqs : req[q].pc = "idle"

\* C12: once the escalations for one user, all from one address, have
\* completed, the user's record and the address's record hold the same level
\* and the same duration.
C12_SameLevelBothRecords ==
    AllReturned =>
      \A u \in UserIds, ip \in Ips :
        (/\ Live(_block_user_key(u))
         /\ Live(_block_ip_key(ip))
         /\ \A other \in Ips \ {ip} : ~Live(_block_ip_key(other))) =>
          REDIS[_block_user_key(u)] = REDIS[_block_ip_key(ip)]

\* C15 as claimed: the level an escalation starts from, for the address's
\* record, is the level of that address's own record.
C15_OwnIpLevel ==
    [][\A q \in Reqs :
         (req[q].pc = "increase_block" /\ req'[q].pc = "set_user_block") =>
           req'[q].level = IF Live(_block_ip_key(req[q].ip))
                           THEN int(GET(REDIS, _block_ip_key(req[q].ip))) ELSE 0]_vars

\* C15: an escalation reads one level, that of the user's record (0 when there
\* is none), and writes the record made from it to the user's key and to the
\* key of the address the request came from; the address's own record is not
\* read.
C15_LevelFromUserRecord ==
    /\ [][\A q \in Reqs :
            (req[q].pc = "increase_block" /\ req'[q].pc = "set_user_block") =>
              req'[q].level = IF Live(_block_user_key(req[q].user))
                              THEN int(GET(REDIS, _block_user_key(req[q].user))) ELSE 0]_vars
    /\ [][\A q \in Reqs :
            (req[q].pc = "set_user_block" /\ req'[q].pc = "set_ip_block") =>
              /\ req'[q].level = req[q].level
              /\ REDIS'[_block_user_key(req[q].user)] =
                   [val |-> str(Min(req[q].level, Len(times) - 1) + 1),
                    ttl |-> times[Min(req[q].level, Len(times) - 1) + 1] * 60]]_vars
    /\ [][\A q \in Reqs :
            (req[q].pc = "set_ip_block" /\ req'[q].pc = "idle") =>
              REDIS'[_block_ip_key(req[q].ip)] =
                [val |-> str(Min(req[q].level, Len(times) - 1) + 1),
                 ttl |-> times[Min(req[q].level, Len(times) - 1) + 1] * 60]]_vars

\* an address with no record of its own has been given level 2
C15_Witness ==
    /\ AllReturned
    /\ Live(_block_ip_key("10.0.0.1")) /\ GET(REDIS, _block_ip_key("10.0.0.1")) = str(1)
    /\ Live(_block_ip_key("10.0.0.2")) /\ GET(REDIS, _block_ip_key("10.0.0.2")) = str(2)

\* C16: every lockout record holds a level from 1 to 4 and the duration of the
\* table for that level, 1440 minutes at most.
C16_LockoutBounded ==
    \A k \in BlockKeys :
      Live(k) =>
        /\ int(GET(REDIS, k)) \in 1..Len(times)
        /\ REDIS[k].ttl = times[int(GET(REDIS, k))] * 60
        /\ REDIS[k].ttl <= 1440 * 60

\* an escalation that read level 4 has written level 4 again
C16_Witness ==
    \E q \in Reqs :
      /\ req[q].pc = "set_ip_block"
      /\ req[q].level = Len(times)
      /\ REDIS[_block_user_key(req[q].user)] = [val |-> str(4), ttl |-> 1440 * 60]

\* C18: of the verify_code calls made against one Challenge, at most one finds
\* the code right and returns True.
C18_OneSuccess ==
    AllReturned => \A u \in UserIds : successes[u] <= 1

\* C19: no verify_code returns True while the user's attempt counter stands at
\* TWO_FA_MAX_ATTEMPTS or more, or a lockout record of the user or of the
\* caller's address is live.
C19_NoSuccessWhenLocked ==
    [][\A q \in Reqs :
         (req[q].pc = "delete_code" /\ req'[q].pc = "idle") =>
           /\ AttemptsOf(REDIS, req[q].user) < TWO_FA_MAX_ATTEMPTS
           /\ ~_is_blocked(REDIS, req[q].user, req[q].ip)]_vars

\* C20: at most TWO_FA_MAX_ATTEMPTS wrong codes are compared against one
\* Challenge and answered 'Invalid code.'.
C20_BoundedGuesses ==
    AllReturned => \A u \in UserIds : wrongRun[u] <= TWO_FA_MAX_ATTEMPTS

\* C21: with no request in flight, every attempt counter in the store has a
\* time to live, of TWO_FA_CODE_TTL_SECONDS at most, also after a wrong-code
\* verify_code whose EXPIRE was lost.
C21_CounterExpires ==
    AllReturned =>
      \A u \in UserIds :
        Live(_attempt_key(u)) => REDIS[_attempt_key(u)].ttl \in 1..TWO_FA_CODE_TTL_SECONDS

\* C22 as claimed: a wrong code that creates the attempt counter gives it the
\* time to live the Challenge has left, and a wrong code that finds the
\* counter leaves its time to live as it is.
C22_TtlAtCreation ==
    [][(VerifyStep /\ last'.result = InvalidCode) =>
         REDIS'[_attempt_key(last'.user)].ttl =
           IF Live(_attempt_key(last'.user))
           THEN REDIS[_attempt_key(last'.user)].ttl
           ELSE REDIS[_code_key(last'.user)].ttl]_vars

\* C22: every wrong code, the first and the later ones alike, leaves the
\* attempt counter with the full TWO_FA_CODE_TTL_SECONDS to live, whatever
\* time the Challenge has left.
C22_TtlRefreshed ==
    [][(VerifyStep /\ last'.result = InvalidCode) =>
         /\ Present(REDIS', _attempt_key(last'.user))
         /\ REDIS'[_attempt_key(last'.user)].ttl = TWO_FA_CODE_TTL_SECONDS]_vars

\* a second wrong code has left the counter with longer to live than the
\* Challenge
C22_Witness ==
    /\ last.op = "verify"
    /\ last.result = InvalidCode
    /\ wrongRun[last.user] >= 2
    /\ Live(_code_key(last.user))
    /\ Live(_attempt_key(last.user))
    /\ REDIS[_attempt_key(last.user)].ttl > REDIS[_code_key(last.user)].ttl

\* C23 as claimed: when the user's lockout record runs out, the user has no
\* Challenge.
C23_BackToNoChallenge ==
    [][\A u \in UserIds :
         (Live(_block_user_key(u)) /\ ~Present(REDIS', _block_user_key(u))) =>
           ~Present(REDIS', _code_key(u))]_vars

\* C23: a lockout record has a finite time to live, the table's at most; while
\* it is live no call changes it and the passing of time only shortens it;
\* when the user's record runs out no attempt counter is left; the escalation
\* after that starts again at level 1 and 30 minutes; and with the lockout
\* over, a send outside the cooldown stores a code and the stored code is
\* accepted.
C23_LockoutEnds ==
    /\ [](\A k \in BlockKeys :
            Live(k) => REDIS[k].ttl \in 1..(times[int(GET(REDIS, k))] * 60))
    /\ [][\A k \in BlockKeys :
            (Live(k) /\ Present(REDIS', k)) =>
              IF last'.op = "tick"
              THEN REDIS'[k].val = REDIS[k].val /\ REDIS'[k].ttl < REDIS[k].ttl
              ELSE REDIS'[k] = REDIS[k]]_vars
    /\ [][\A u \in UserIds :
            (Live(_block_user_key(u)) /\ ~Present(REDIS', _block_user_key(u))) =>
              (last'.op = "tick" /\ ~Present(REDIS', _attempt_key(u)))]_vars
    /\ [][\A u \in UserIds :
            (~Live(_block_user_key(u)) /\ Present(REDIS', _block_user_key(u))) =>
              REDIS'[_block_user_key(u)] = [val |-> str(1), ttl |-> times[1] * 60]]_vars
    /\ [][(SendStep /\ escCount[last'.user] > 0 /\ ~TooSoon(REDIS, last'.user)) =>
            (last'.result = Success /\ Present(REDIS', _code_key(last'.user)))]_vars
    /\ [][(/\ VerifyStep
           /\ escCount[last'.user] > 0
           /\ ~_is_blocked(REDIS, last'.user, last'.ip)
           /\ Live(_code_key(last'.user))
           /\ last'.code = GET(REDIS, _code_key(last'.user)).code) =>
            last'.result = Success]_vars

\* after a lockout that has run out, a new code was issued and accepted
C23_Witness ==
    /\ last.op = "verify"
    /\ last.result = Success
    /\ escCount[last.user] > 0
    /\ ~Live(_block_user_key(last.user))
    /\ ~Live(_block_ip_key(last.ip))

\* C24: a token that login issued to one user resolves, in get_current_user,
\* to that user or to nobody.
C24_TokenBoundToUser ==
    \A m \in minted : \A row \in get_current_user(users, m.token) : row.id = m.id

\* C25: decode_access_token answers None for every correlation token and
\* get_current_user resolves it to no user, also while the user it was minted
\* for exists; a request that was let in as some user presented an access
\* token that resolves to that user.
C25_TmpTokenRejected ==
    /\ [](\A t \in tmp_tokens :
            decode_access_token(t) = None /\ get_current_user(users, t) = {})
    /\ [][(last'.op \in {"update", "delete"} /\ last'.user # 0) =>
            \E t \in tokens : \E row \in get_current_user(users, t) : row.id = last'.user]_vars

\* no access token exists, so the request answered 401 presented the
\* correlation token of a user who is registered
C25_Witness ==
    /\ last.op \in {"update", "delete"}
    /\ last.result = Unauthorized
    /\ tokens = {}
    /\ \E t \in tmp_tokens : \E row \in users : row.id = t.user_id

====
